---- MODULE Spec2Model ----
(***************************************************************************)
(* TealScan Pro (src/app.py): the metrics-and-classification engine and    *)
(* the main loop that folds it over the holdings of one statement.         *)
(*                                                                         *)
(* Representation                                                          *)
(*   - a Python str that comes from the statement, is built by formatting  *)
(*     or holds characters outside ASCII is the sequence of its Unicode    *)
(*     code points, so that upper(), the "in" substring test and the       *)
(*     format specification are computed, not assumed; the ASCII string    *)
(*     constants that the code only hands on (category, status) are TLA+   *)
(*     strings;                                                            *)
(*   - a Python float is an IEEE-754 double [neg, m, e], every operation   *)
(*     rounded to nearest, ties to even;                                   *)
(*   - a Decimal delivered by the statement parser is an integer;          *)
(*   - an optional value is <<>> (None) or <<v>>;                          *)
(*   - a date is a day number.                                             *)
(***************************************************************************)
EXTENDS Integers, Sequences, FiniteSets

VARIABLES
    workload,               \* which family of statements the parser delivers
    pc,                     \* position of the script: idle, loop, done, error
    clock,                  \* the ambient calendar day (date.today())
    visited,                \* schemes of data.folios iterated so far in this run
    scheme,                 \* loop variable `scheme` (line 142), <<>> before the first
    my_xirr, my_abs, status,\* loop locals of line 155
    res,                    \* what xirr() did at line 88 in this iteration
    xirr_args,              \* the (dates, amounts) passed at line 88, <<>> if not called
    todays,                 \* the dates of the terminal entries built at line 85 in this run
    portfolio_data,         \* line 136
    total_curr,             \* line 137
    total_invested,         \* line 138
    total_commission_loss,  \* line 139
    report                  \* what the dashboard computed (lines 185-248), <<>> before

vars == <<workload, pc, clock, visited, scheme, my_xirr, my_abs, status, res, xirr_args,
          todays, portfolio_data, total_curr, total_invested,
          total_commission_loss, report>>

\* ------------------------------------------------------------------ bounds
MaxSchemes == 2
MaxTxns == 2
MaxTicks == 1
FirstDay == 3

\* ---------------------------------------------------------------- optionals
None == <<>>
Some(v) == <<v>>
IsNone(o) == o = <<>>
Val(o) == o[1]

\* ------------------------------------------------------- natural numbers
\* TLC's integers are 32 bits wide and a double's significand has 53, so the
\* naturals the float arithmetic needs are sequences of 15-bit limbs, least
\* significant first, without a leading zero limb (0 is <<>>).
Base == 32768
LimbBits == 15

RECURSIVE BTrim(_)
BTrim(a) ==
    IF a = <<>> THEN a
    ELSE IF a[Len(a)] = 0 THEN BTrim(SubSeq(a, 1, Len(a) - 1))
    ELSE a

RECURSIVE BFromInt(_)
BFromInt(i) == IF i = 0 THEN <<>> ELSE <<i % Base>> \o BFromInt(i \div Base)

RECURSIVE BCmpFrom(_, _, _)
BCmpFrom(a, b, i) ==
    IF i = 0 THEN 0
    ELSE IF a[i] # b[i] THEN (IF a[i] < b[i] THEN -1 ELSE 1)
    ELSE BCmpFrom(a, b, i - 1)

BCmp(a, b) ==
    IF Len(a) # Len(b) THEN (IF Len(a) < Len(b) THEN -1 ELSE 1)
    ELSE BCmpFrom(a, b, Len(a))

RECURSIVE BAddC(_, _, _)
BAddC(a, b, c) ==
    IF a = <<>> /\ b = <<>> THEN (IF c = 0 THEN <<>> ELSE <<c>>)
    ELSE LET x == (IF a = <<>> THEN 0 ELSE a[1]) + (IF b = <<>> THEN 0 ELSE b[1]) + c
         IN  <<x % Base>> \o BAddC(IF a = <<>> THEN a ELSE Tail(a),
                                   IF b = <<>> THEN b ELSE Tail(b), x \div Base)

BAdd(a, b) == BAddC(a, b, 0)

\* a - b - c for a >= b + c, before the leading zeros are cut
RECURSIVE BSubC(_, _, _)
BSubC(a, b, c) ==
    IF a = <<>> THEN <<>>
    ELSE LET x == a[1] - (IF b = <<>> THEN 0 ELSE b[1]) - c
         IN  <<IF x < 0 THEN x + Base ELSE x>>
                 \o BSubC(Tail(a), IF b = <<>> THEN b ELSE Tail(b), IF x < 0 THEN 1 ELSE 0)

BSub(a, b) == BTrim(BSubC(a, b, 0))

RECURSIVE BMulSmallC(_, _, _)
BMulSmallC(a, k, c) ==
    IF a = <<>> THEN (IF c = 0 THEN <<>> ELSE <<c>>)
    ELSE LET x == a[1] * k + c
         IN  <<x % Base>> \o BMulSmallC(Tail(a), k, x \div Base)

\* a * k for a limb k
BMulSmall(a, k) == IF k = 0 THEN <<>> ELSE BMulSmallC(a, k, 0)

\* a * Base^cnt
BShiftLimbs(a, cnt) == IF a = <<>> THEN a ELSE [i \in 1..cnt |-> 0] \o a

RECURSIVE BMul(_, _)
BMul(a, b) ==
    IF b = <<>> THEN <<>>
    ELSE BAdd(BMulSmall(a, b[1]), BShiftLimbs(BMul(a, Tail(b)), 1))

\* a * 2^bits
BShl(a, bits) == BMulSmall(BShiftLimbs(a, bits \div LimbBits), 2 ^ (bits % LimbBits))

\* quotient and remainder of a by a limb k > 0, from the top limb down
RECURSIVE BDivSmallFrom(_, _, _, _, _)
BDivSmallFrom(a, k, i, r, acc) ==
    IF i = 0 THEN [q |-> BTrim(acc), r |-> IF r = 0 THEN <<>> ELSE <<r>>]
    ELSE LET cur == r * Base + a[i]
         IN  BDivSmallFrom(a, k, i - 1, cur % k, <<cur \div k>> \o acc)

BDivSmall(a, k) == BDivSmallFrom(a, k, Len(a), 0, <<>>)

\* floor(a / 2^bits)
BShr(a, bits) ==
    IF bits \div LimbBits >= Len(a) THEN <<>>
    ELSE BDivSmall(SubSeq(a, bits \div LimbBits + 1, Len(a)), 2 ^ (bits % LimbBits)).q

RECURSIVE IntBitLen(_)
IntBitLen(x) == IF x = 0 THEN 0 ELSE 1 + IntBitLen(x \div 2)

BBitLen(a) == IF a = <<>> THEN 0 ELSE LimbBits * (Len(a) - 1) + IntBitLen(a[Len(a)])

RECURSIVE IntTrailingZeros(_)
IntTrailingZeros(x) == IF x % 2 = 1 THEN 0 ELSE 1 + IntTrailingZeros(x \div 2)

\* the number of trailing zero bits of a > 0
RECURSIVE BTrailingZeros(_)
BTrailingZeros(a) ==
    IF a[1] = 0 THEN LimbBits + BTrailingZeros(Tail(a)) ELSE IntTrailingZeros(a[1])

BIsOdd(a) == a # <<>> /\ a[1] % 2 = 1

\* the largest limb d with b * d <= r, for r < b * Base, by bisection
RECURSIVE BQuotientLimb(_, _, _, _)
BQuotientLimb(r, b, lo, hi) ==
    IF lo = hi THEN lo
    ELSE LET mid == (lo + hi + 1) \div 2
         IN  IF BCmp(BMulSmall(b, mid), r) <= 0 THEN BQuotientLimb(r, b, mid, hi)
             ELSE BQuotientLimb(r, b, lo, mid - 1)

\* quotient and remainder of a by b > 0, one limb of a at a time from the top;
\* cur is the remainder so far with limb i of a brought down, d the next limb
\* of the quotient
RECURSIVE BDivFrom(_, _, _, _, _)
RECURSIVE BDivStep(_, _, _, _, _)
BDivLimb(a, b, i, cur, acc, d) ==
    BDivFrom(a, b, i - 1, BSub(cur, BMulSmall(b, d)), <<d>> \o acc)

BDivStep(a, b, i, cur, acc) ==
    BDivLimb(a, b, i, cur, acc, BQuotientLimb(cur, b, 0, Base - 1))

BDivFrom(a, b, i, r, acc) ==
    IF i = 0 THEN [q |-> BTrim(acc), r |-> r]
    ELSE BDivStep(a, b, i, BTrim(<<a[i]>> \o r), acc)

BDivMod(a, b) ==
    IF Len(b) = 1 THEN BDivSmall(a, b[1])
    ELSE BDivFrom(a, b, Len(a), <<>>, <<>>)

\* the decimal digits of a, most significant first, as code points
RECURSIVE BDigits(_)
BDigits(a) ==
    IF a = <<>> THEN <<>>
    ELSE BDigits(BDivSmall(a, 10).q)
             \o <<48 + (IF BDivSmall(a, 10).r = <<>> THEN 0 ELSE BDivSmall(a, 10).r[1])>>

\* ------------------------------------------------------------------ floats
\* A Python float is an IEEE-754 double: (-1)^neg * m * 2^e with m < 2^53, here
\* with m odd (or m = 0, e = 0), so that equal doubles are equal records. Every
\* operation rounds its exact result to nearest, ties to even. Exponents are not
\* bounded: overflow to inf and subnormal results are not modelled.
Precision == 53

FZero(neg) == [neg |-> neg, m |-> <<>>, e |-> 0]

FCanon(neg, mant, e) ==
    IF mant = <<>> THEN FZero(neg)
    ELSE LET tz == BTrailingZeros(mant)
         IN  [neg |-> neg, m |-> BShr(mant, tz), e |-> e + tz]

\* the bits of a below position bits are not all zero
BLowBits(a, bits) == BShl(BShr(a, bits), bits) # a

\* q2 / 2 rounded to nearest, ties to even, where the value rounded is q2 / 2
\* plus a positive amount below 1/2 when inexact
BRoundHalf(q2, inexact) ==
    IF BIsOdd(q2) /\ (inexact \/ BIsOdd(BShr(q2, 1))) THEN BAdd(BShr(q2, 1), <<1>>)
    ELSE BShr(q2, 1)

\* a / 2^bits for bits > 0, plus a positive amount below 1 / 2^bits when sticky,
\* rounded to nearest, ties to even
BShrRound(a, bits, sticky) ==
    BRoundHalf(BShr(a, bits - 1), sticky \/ BLowBits(a, bits - 1))

\* (-1)^neg * mant * 2^e, plus a positive amount below 2^e when sticky, rounded
FRound(neg, mant, e, sticky) ==
    IF BBitLen(mant) <= Precision THEN FCanon(neg, mant, e)
    ELSE FCanon(neg, BShrRound(mant, BBitLen(mant) - Precision, sticky),
                e + BBitLen(mant) - Precision)

\* float(i) of an integer (a Decimal without a fraction), and the float literals
Float(i) == FCanon(i < 0, BFromInt(IF i < 0 THEN -i ELSE i), 0)

FIsZero(a) == a.m = <<>>
FNeg(a) == [a EXCEPT !.neg = ~@]

\* the position above the top bit
FTop(a) == a.e + BBitLen(a.m)

FMul(a, b) ==
    IF FIsZero(a) \/ FIsZero(b) THEN FZero(a.neg # b.neg)
    ELSE FRound(a.neg # b.neg, BMul(a.m, b.m), a.e + b.e, FALSE)

\* d is the quotient and remainder of |a| * 2^k by |b|
FDivRound(neg, d, e) == FRound(neg, d.q, e, d.r # <<>>)

\* the quotient of a.m * 2^k by b.m has more than Precision + 1 bits
FDivScaled(a, b, k) ==
    FDivRound(a.neg # b.neg, BDivMod(BShl(a.m, k), b.m), a.e - b.e - k)

\* a / b for b # 0 (Python raises ZeroDivisionError otherwise)
FDiv(a, b) ==
    IF FIsZero(a) THEN FZero(a.neg # b.neg)
    ELSE IF Precision + 2 + BBitLen(b.m) - BBitLen(a.m) > 0
        THEN FDivScaled(a, b, Precision + 2 + BBitLen(b.m) - BBitLen(a.m))
    ELSE FDivScaled(a, b, 0)

\* (-1)^aneg * x * 2^e + (-1)^bneg * y * 2^e for x, y > 0
FAddAligned(aneg, x, bneg, y, e) ==
    IF aneg = bneg THEN FRound(aneg, BAdd(x, y), e, FALSE)
    ELSE IF BCmp(x, y) = 0 THEN FZero(FALSE)
    ELSE IF BCmp(x, y) > 0 THEN FRound(aneg, BSub(x, y), e, FALSE)
    ELSE FRound(bneg, BSub(y, x), e, FALSE)

FAdd(a, b) ==
    IF FIsZero(a) /\ FIsZero(b) THEN FZero(a.neg /\ b.neg)
    ELSE IF FIsZero(a) THEN b
    ELSE IF FIsZero(b) THEN a
    ELSE IF FTop(a) - FTop(b) > Precision + 2 THEN a
    ELSE IF FTop(b) - FTop(a) > Precision + 2 THEN b
    ELSE IF a.e < b.e THEN FAddAligned(a.neg, a.m, b.neg, BShl(b.m, b.e - a.e), a.e)
    ELSE FAddAligned(a.neg, BShl(a.m, a.e - b.e), b.neg, b.m, b.e)

FSub(a, b) == FAdd(a, FNeg(b))

\* -1, 0, 1 as |a| is below, equal to, above |b|, for a, b # 0
FMagCmp(a, b) ==
    IF FTop(a) # FTop(b) THEN (IF FTop(a) < FTop(b) THEN -1 ELSE 1)
    ELSE IF a.e < b.e THEN BCmp(a.m, BShl(b.m, b.e - a.e))
    ELSE BCmp(BShl(a.m, a.e - b.e), b.m)

FCmp(a, b) ==
    IF FIsZero(a) /\ FIsZero(b) THEN 0
    ELSE IF FIsZero(a) THEN (IF b.neg THEN 1 ELSE -1)
    ELSE IF FIsZero(b) THEN (IF a.neg THEN -1 ELSE 1)
    ELSE IF a.neg # b.neg THEN (IF a.neg THEN -1 ELSE 1)
    ELSE IF a.neg THEN -FMagCmp(a, b) ELSE FMagCmp(a, b)

FLt(a, b) == FCmp(a, b) < 0
FLe(a, b) == FCmp(a, b) <= 0
FGt(a, b) == FCmp(a, b) > 0
FGe(a, b) == FCmp(a, b) >= 0
FEq(a, b) == FCmp(a, b) = 0

\* the text of (-1)^neg * (d.q + d.r / 100) with two decimals and a percent sign
Fmt2Text(neg, d) ==
    (IF neg THEN <<45>> ELSE <<>>)
        \o (IF d.q = <<>> THEN <<48>> ELSE BDigits(d.q))
        \o <<46>>
        \o (IF d.r = <<>> THEN <<48, 48>> ELSE <<48 + (d.r[1] \div 10), 48 + (d.r[1] % 10)>>)
        \o <<37>>

\* f"{x:.2f}%": the exact value rounded to hundredths, ties to even
Fmt2(x) ==
    IF x.e >= 0 THEN Fmt2Text(x.neg, BDivSmall(BShl(BMulSmall(x.m, 100), x.e), 100))
    ELSE Fmt2Text(x.neg, BDivSmall(BShrRound(BMulSmall(x.m, 100), -x.e, FALSE), 100))

\* the float literals of the source
Zero == Float(0)
One == Float(1)
MinusOne == Float(-1)
Five == Float(5)
Twelve == Float(12)
Twenty == Float(20)
Hundred == Float(100)
MinusNinety == Float(-90)
\* 0.01 is the double nearest to 1/100
OnePercent == FDiv(Float(1), Float(100))

\* ------------------------------------------------------------------ strings
\* str.upper() maps a character to the full uppercase mapping of its code point
\* (Unicode 14.0.0, the table of CPython 3.11). UpperRanges lists the code
\* points mapped to one character as <<first, last, step, offset>>: every
\* step-th code point from first to last maps to itself plus offset.
\* UpperSpecial lists those mapped to several characters. Every other code
\* point is kept.
UpperRanges ==
    <<<<181, 181, 1, 743>>, <<224, 246, 1, -32>>, <<248, 254, 1, -32>>,
      <<255, 255, 1, 121>>, <<257, 303, 2, -1>>, <<305, 305, 1, -232>>,
      <<307, 311, 2, -1>>, <<314, 328, 2, -1>>, <<331, 375, 2, -1>>,
      <<378, 382, 2, -1>>, <<383, 383, 1, -300>>, <<384, 384, 1, 195>>,
      <<387, 389, 2, -1>>, <<392, 392, 1, -1>>, <<396, 396, 1, -1>>,
      <<402, 402, 1, -1>>, <<405, 405, 1, 97>>, <<409, 409, 1, -1>>,
      <<410, 410, 1, 163>>, <<414, 414, 1, 130>>, <<417, 421, 2, -1>>,
      <<424, 424, 1, -1>>, <<429, 429, 1, -1>>, <<432, 432, 1, -1>>,
      <<436, 438, 2, -1>>, <<441, 441, 1, -1>>, <<445, 445, 1, -1>>,
      <<447, 447, 1, 56>>, <<453, 453, 1, -1>>, <<454, 454, 1, -2>>,
      <<456, 456, 1, -1>>, <<457, 457, 1, -2>>, <<459, 459, 1, -1>>,
      <<460, 460, 1, -2>>, <<462, 476, 2, -1>>, <<477, 477, 1, -79>>,
      <<479, 495, 2, -1>>, <<498, 498, 1, -1>>, <<499, 499, 1, -2>>,
      <<501, 501, 1, -1>>, <<505, 543, 2, -1>>, <<547, 563, 2, -1>>,
      <<572, 572, 1, -1>>, <<575, 576, 1, 10815>>, <<578, 578, 1, -1>>,
      <<583, 591, 2, -1>>, <<592, 592, 1, 10783>>, <<593, 593, 1, 10780>>,
      <<594, 594, 1, 10782>>, <<595, 595, 1, -210>>, <<596, 596, 1, -206>>,
      <<598, 599, 1, -205>>, <<601, 601, 1, -202>>, <<603, 603, 1, -203>>,
      <<604, 604, 1, 42319>>, <<608, 608, 1, -205>>, <<609, 609, 1, 42315>>,
      <<611, 611, 1, -207>>, <<613, 613, 1, 42280>>, <<614, 614, 1, 42308>>,
      <<616, 616, 1, -209>>, <<617, 617, 1, -211>>, <<618, 618, 1, 42308>>,
      <<619, 619, 1, 10743>>, <<620, 620, 1, 42305>>, <<623, 623, 1, -211>>,
      <<625, 625, 1, 10749>>, <<626, 626, 1, -213>>, <<629, 629, 1, -214>>,
      <<637, 637, 1, 10727>>, <<640, 640, 1, -218>>, <<642, 642, 1, 42307>>,
      <<643, 643, 1, -218>>, <<647, 647, 1, 42282>>, <<648, 648, 1, -218>>,
      <<649, 649, 1, -69>>, <<650, 651, 1, -217>>, <<652, 652, 1, -71>>,
      <<658, 658, 1, -219>>, <<669, 669, 1, 42261>>, <<670, 670, 1, 42258>>,
      <<837, 837, 1, 84>>, <<881, 883, 2, -1>>, <<887, 887, 1, -1>>,
      <<891, 893, 1, 130>>, <<940, 940, 1, -38>>, <<941, 943, 1, -37>>,
      <<945, 961, 1, -32>>, <<962, 962, 1, -31>>, <<963, 971, 1, -32>>,
      <<972, 972, 1, -64>>, <<973, 974, 1, -63>>, <<976, 976, 1, -62>>,
      <<977, 977, 1, -57>>, <<981, 981, 1, -47>>, <<982, 982, 1, -54>>,
      <<983, 983, 1, -8>>, <<985, 1007, 2, -1>>, <<1008, 1008, 1, -86>>,
      <<1009, 1009, 1, -80>>, <<1010, 1010, 1, 7>>, <<1011, 1011, 1, -116>>,
      <<1013, 1013, 1, -96>>, <<1016, 1016, 1, -1>>, <<1019, 1019, 1, -1>>,
      <<1072, 1103, 1, -32>>, <<1104, 1119, 1, -80>>, <<1121, 1153, 2, -1>>,
      <<1163, 1215, 2, -1>>, <<1218, 1230, 2, -1>>, <<1231, 1231, 1, -15>>,
      <<1233, 1327, 2, -1>>, <<1377, 1414, 1, -48>>, <<4304, 4346, 1, 3008>>,
      <<4349, 4351, 1, 3008>>, <<5112, 5117, 1, -8>>, <<7296, 7296, 1, -6254>>,
      <<7297, 7297, 1, -6253>>, <<7298, 7298, 1, -6244>>, <<7299, 7300, 1, -6242>>,
      <<7301, 7301, 1, -6243>>, <<7302, 7302, 1, -6236>>, <<7303, 7303, 1, -6181>>,
      <<7304, 7304, 1, 35266>>, <<7545, 7545, 1, 35332>>, <<7549, 7549, 1, 3814>>,
      <<7566, 7566, 1, 35384>>, <<7681, 7829, 2, -1>>, <<7835, 7835, 1, -59>>,
      <<7841, 7935, 2, -1>>, <<7936, 7943, 1, 8>>, <<7952, 7957, 1, 8>>,
      <<7968, 7975, 1, 8>>, <<7984, 7991, 1, 8>>, <<8000, 8005, 1, 8>>,
      <<8017, 8023, 2, 8>>, <<8032, 8039, 1, 8>>, <<8048, 8049, 1, 74>>,
      <<8050, 8053, 1, 86>>, <<8054, 8055, 1, 100>>, <<8056, 8057, 1, 128>>,
      <<8058, 8059, 1, 112>>, <<8060, 8061, 1, 126>>, <<8112, 8113, 1, 8>>,
      <<8126, 8126, 1, -7205>>, <<8144, 8145, 1, 8>>, <<8160, 8161, 1, 8>>,
      <<8165, 8165, 1, 7>>, <<8526, 8526, 1, -28>>, <<8560, 8575, 1, -16>>,
      <<8580, 8580, 1, -1>>, <<9424, 9449, 1, -26>>, <<11312, 11359, 1, -48>>,
      <<11361, 11361, 1, -1>>, <<11365, 11365, 1, -10795>>,
      <<11366, 11366, 1, -10792>>, <<11368, 11372, 2, -1>>, <<11379, 11379, 1, -1>>,
      <<11382, 11382, 1, -1>>, <<11393, 11491, 2, -1>>, <<11500, 11502, 2, -1>>,
      <<11507, 11507, 1, -1>>, <<11520, 11557, 1, -7264>>,
      <<11559, 11559, 1, -7264>>, <<11565, 11565, 1, -7264>>,
      <<42561, 42605, 2, -1>>, <<42625, 42651, 2, -1>>, <<42787, 42799, 2, -1>>,
      <<42803, 42863, 2, -1>>, <<42874, 42876, 2, -1>>, <<42879, 42887, 2, -1>>,
      <<42892, 42892, 1, -1>>, <<42897, 42899, 2, -1>>, <<42900, 42900, 1, 48>>,
      <<42903, 42921, 2, -1>>, <<42933, 42947, 2, -1>>, <<42952, 42954, 2, -1>>,
      <<42961, 42961, 1, -1>>, <<42967, 42969, 2, -1>>, <<42998, 42998, 1, -1>>,
      <<43859, 43859, 1, -928>>, <<43888, 43967, 1, -38864>>,
      <<65345, 65370, 1, -32>>, <<66600, 66639, 1, -40>>, <<66776, 66811, 1, -40>>,
      <<66967, 67003, 2, -39>>, <<66968, 66977, 1, -39>>, <<66980, 66993, 1, -39>>,
      <<66996, 67001, 1, -39>>, <<67004, 67004, 1, -39>>, <<68800, 68850, 1, -64>>,
      <<71872, 71903, 1, -32>>, <<93792, 93823, 1, -32>>, <<125218, 125251, 1, -34>>>>

UpperSpecial ==
    <<<<223, <<83, 83>>>>, <<329, <<700, 78>>>>, <<496, <<74, 780>>>>,
      <<912, <<921, 776, 769>>>>, <<944, <<933, 776, 769>>>>,
      <<1415, <<1333, 1362>>>>, <<7830, <<72, 817>>>>, <<7831, <<84, 776>>>>,
      <<7832, <<87, 778>>>>, <<7833, <<89, 778>>>>, <<7834, <<65, 702>>>>,
      <<8016, <<933, 787>>>>, <<8018, <<933, 787, 768>>>>,
      <<8020, <<933, 787, 769>>>>, <<8022, <<933, 787, 834>>>>,
      <<8064, <<7944, 921>>>>, <<8065, <<7945, 921>>>>, <<8066, <<7946, 921>>>>,
      <<8067, <<7947, 921>>>>, <<8068, <<7948, 921>>>>, <<8069, <<7949, 921>>>>,
      <<8070, <<7950, 921>>>>, <<8071, <<7951, 921>>>>, <<8072, <<7944, 921>>>>,
      <<8073, <<7945, 921>>>>, <<8074, <<7946, 921>>>>, <<8075, <<7947, 921>>>>,
      <<8076, <<7948, 921>>>>, <<8077, <<7949, 921>>>>, <<8078, <<7950, 921>>>>,
      <<8079, <<7951, 921>>>>, <<8080, <<7976, 921>>>>, <<8081, <<7977, 921>>>>,
      <<8082, <<7978, 921>>>>, <<8083, <<7979, 921>>>>, <<8084, <<7980, 921>>>>,
      <<8085, <<7981, 921>>>>, <<8086, <<7982, 921>>>>, <<8087, <<7983, 921>>>>,
      <<8088, <<7976, 921>>>>, <<8089, <<7977, 921>>>>, <<8090, <<7978, 921>>>>,
      <<8091, <<7979, 921>>>>, <<8092, <<7980, 921>>>>, <<8093, <<7981, 921>>>>,
      <<8094, <<7982, 921>>>>, <<8095, <<7983, 921>>>>, <<8096, <<8040, 921>>>>,
      <<8097, <<8041, 921>>>>, <<8098, <<8042, 921>>>>, <<8099, <<8043, 921>>>>,
      <<8100, <<8044, 921>>>>, <<8101, <<8045, 921>>>>, <<8102, <<8046, 921>>>>,
      <<8103, <<8047, 921>>>>, <<8104, <<8040, 921>>>>, <<8105, <<8041, 921>>>>,
      <<8106, <<8042, 921>>>>, <<8107, <<8043, 921>>>>, <<8108, <<8044, 921>>>>,
      <<8109, <<8045, 921>>>>, <<8110, <<8046, 921>>>>, <<8111, <<8047, 921>>>>,
      <<8114, <<8122, 921>>>>, <<8115, <<913, 921>>>>, <<8116, <<902, 921>>>>,
      <<8118, <<913, 834>>>>, <<8119, <<913, 834, 921>>>>, <<8124, <<913, 921>>>>,
      <<8130, <<8138, 921>>>>, <<8131, <<919, 921>>>>, <<8132, <<905, 921>>>>,
      <<8134, <<919, 834>>>>, <<8135, <<919, 834, 921>>>>, <<8140, <<919, 921>>>>,
      <<8146, <<921, 776, 768>>>>, <<8147, <<921, 776, 769>>>>,
      <<8150, <<921, 834>>>>, <<8151, <<921, 776, 834>>>>,
      <<8162, <<933, 776, 768>>>>, <<8163, <<933, 776, 769>>>>,
      <<8164, <<929, 787>>>>, <<8166, <<933, 834>>>>, <<8167, <<933, 776, 834>>>>,
      <<8178, <<8186, 921>>>>, <<8179, <<937, 921>>>>, <<8180, <<911, 921>>>>,
      <<8182, <<937, 834>>>>, <<8183, <<937, 834, 921>>>>, <<8188, <<937, 921>>>>,
      <<64256, <<70, 70>>>>, <<64257, <<70, 73>>>>, <<64258, <<70, 76>>>>,
      <<64259, <<70, 70, 73>>>>, <<64260, <<70, 70, 76>>>>, <<64261, <<83, 84>>>>,
      <<64262, <<83, 84>>>>, <<64275, <<1348, 1350>>>>, <<64276, <<1348, 1333>>>>,
      <<64277, <<1348, 1339>>>>, <<64278, <<1358, 1350>>>>,
      <<64279, <<1348, 1341>>>>>>

\* a code point above ASCII: sp and rg are the entries of the two tables for it
UpperLookup(c, sp, rg) ==
    IF sp # {} THEN UpperSpecial[CHOOSE k \in sp : TRUE][2]
    ELSE IF rg # {} THEN <<c + UpperRanges[CHOOSE k \in rg : TRUE][4]>>
    ELSE <<c>>

UpperChar(c) ==
    IF c < 128 THEN (IF 97 <= c /\ c <= 122 THEN <<c - 32>> ELSE <<c>>)
    ELSE UpperLookup(c,
                     {k \in 1..Len(UpperSpecial) : UpperSpecial[k][1] = c},
                     {k \in 1..Len(UpperRanges) :
                        /\ UpperRanges[k][1] <= c
                        /\ c <= UpperRanges[k][2]
                        /\ (c - UpperRanges[k][1]) % UpperRanges[k][3] = 0})

\* str.upper()
RECURSIVE Upper(_)
Upper(s) == IF s = <<>> THEN <<>> ELSE UpperChar(Head(s)) \o Upper(Tail(s))

\* Python's `sub in s`
Contains(s, sub) ==
    \E i \in 1..(Len(s) - Len(sub) + 1) : SubSeq(s, i, i + Len(sub) - 1) = sub

\* Python's any(x in s for x in subs)
ContainsAny(s, subs) == \E k \in 1..Len(subs) : Contains(s, subs[k])

\* "None"
strNone == <<78, 111, 110, 101>>
\* str(x) of a description: the text itself, or "None" when it is absent
Str(o) == IF IsNone(o) THEN strNone ELSE Val(o)

\* the keywords of the source
\* "LIQUID"
kwLIQUID == <<76, 73, 81, 85, 73, 68>>
\* "OVERNIGHT"
kwOVERNIGHT == <<79, 86, 69, 82, 78, 73, 71, 72, 84>>
\* "BOND"
kwBOND == <<66, 79, 78, 68>>
\* "DEBT"
kwDEBT == <<68, 69, 66, 84>>
\* "GILT"
kwGILT == <<71, 73, 76, 84>>
\* "TREASURY"
kwTREASURY == <<84, 82, 69, 65, 83, 85, 82, 89>>
\* "GOLD"
kwGOLD == <<71, 79, 76, 68>>
\* "SILVER"
kwSILVER == <<83, 73, 76, 86, 69, 82>>
\* "COMMODITIES"
kwCOMMODITIES == <<67, 79, 77, 77, 79, 68, 73, 84, 73, 69, 83>>
\* "HYBRID"
kwHYBRID == <<72, 89, 66, 82, 73, 68>>
\* "BALANCED"
kwBALANCED == <<66, 65, 76, 65, 78, 67, 69, 68>>
\* "DYNAMIC"
kwDYNAMIC == <<68, 89, 78, 65, 77, 73, 67>>
\* "SMALL CAP"
kwSMALL_CAP == <<83, 77, 65, 76, 76, 32, 67, 65, 80>>
\* "MID CAP"
kwMID_CAP == <<77, 73, 68, 32, 67, 65, 80>>
\* "LARGE"
kwLARGE == <<76, 65, 82, 71, 69>>
\* "MID"
kwMID == <<77, 73, 68>>
\* "LARGE CAP"
kwLARGE_CAP == <<76, 65, 82, 71, 69, 32, 67, 65, 80>>
\* "FLEXI"
kwFLEXI == <<70, 76, 69, 88, 73>>
\* "ELSS"
kwELSS == <<69, 76, 83, 83>>
\* "TAX SAVER"
kwTAX_SAVER == <<84, 65, 88, 32, 83, 65, 86, 69, 82>>
\* "INDEX"
kwINDEX == <<73, 78, 68, 69, 88>>
\* "MULTI"
kwMULTI == <<77, 85, 76, 84, 73>>
\* "VALUE"
kwVALUE == <<86, 65, 76, 85, 69>>
\* "DIRECT"
kwDIRECT == <<68, 73, 82, 69, 67, 84>>
\* "PURCHASE"
kwPURCHASE == <<80, 85, 82, 67, 72, 65, 83, 69>>
\* "SIP"
kwSIP == <<83, 73, 80>>
\* "SWITCH IN"
kwSWITCH_IN == <<83, 87, 73, 84, 67, 72, 32, 73, 78>>
\* "STP IN"
kwSTP_IN == <<83, 84, 80, 32, 73, 78>>
\* "DIVIDEND"
kwDIVIDEND == <<68, 73, 86, 73, 68, 69, 78, 68>>
\* "REDEMPTION"
kwREDEMPTION == <<82, 69, 68, 69, 77, 80, 84, 73, 79, 78>>
\* "SWITCH OUT"
kwSWITCH_OUT == <<83, 87, 73, 84, 67, 72, 32, 79, 85, 84>>
\* "STP OUT"
kwSTP_OUT == <<83, 84, 80, 32, 79, 85, 84>>
\* "SWP"
kwSWP == <<83, 87, 80>>
\* "Regular"
kwRegular == <<82, 101, 103, 117, 108, 97, 114>>

\* the string literals of the source with characters outside ASCII
\* "\U0001f525 IN-FORM"
rtInForm == <<128293, 32, 73, 78, 45, 70, 79, 82, 77>>
\* "\u2705 ON-TRACK"
rtOnTrack == <<9989, 32, 79, 78, 45, 84, 82, 65, 67, 75>>
\* "\u26a0\ufe0f OFF-TRACK"
rtOffTrack == <<9888, 65039, 32, 79, 70, 70, 45, 84, 82, 65, 67, 75>>
\* "\u274c OUT-OF-FORM"
rtOutOfForm == <<10060, 32, 79, 85, 84, 45, 79, 70, 45, 70, 79, 82, 77>>
\* "Regular \U0001f534"
tyRegular == <<82, 101, 103, 117, 108, 97, 114, 32, 128308>>
\* "Direct \U0001f7e2"
tyDirect == <<68, 105, 114, 101, 99, 116, 32, 128994>>
\* "N/A"
strNA == <<78, 47, 65>>

\* ------------------------------------------------------- get_asset_class
get_asset_class(fund_name) ==
    LET name == Upper(fund_name)
    IN  IF ContainsAny(name, <<kwLIQUID, kwOVERNIGHT, kwBOND, kwDEBT, kwGILT, kwTREASURY>>)
            THEN "Debt"
        ELSE IF ContainsAny(name, <<kwGOLD, kwSILVER, kwCOMMODITIES>>)
            THEN "Commodity"
        ELSE IF ContainsAny(name, <<kwHYBRID, kwBALANCED, kwDYNAMIC>>)
            THEN "Hybrid"
        ELSE "Equity"

\* ------------------------------------------------- get_detailed_category
get_detailed_category(fund_name) ==
    LET name == Upper(fund_name)
    IN  IF Contains(name, kwSMALL_CAP) THEN "Small Cap"
        ELSE IF Contains(name, kwMID_CAP) THEN "Mid Cap"
        ELSE IF Contains(name, kwLARGE) /\ Contains(name, kwMID) THEN "Large & Mid Cap"
        ELSE IF Contains(name, kwLARGE_CAP) THEN "Large Cap"
        ELSE IF Contains(name, kwFLEXI) THEN "Flexi Cap"
        ELSE IF Contains(name, kwELSS) \/ Contains(name, kwTAX_SAVER) THEN "ELSS (Tax Saver)"
        ELSE IF Contains(name, kwINDEX) THEN "Index Fund"
        ELSE IF Contains(name, kwMULTI) THEN "Multi Cap"
        ELSE IF Contains(name, kwVALUE) THEN "Value Fund"
        ELSE "Other Equity"

\* ----------------------------------------------------- calculate_metrics
\* Python truthiness of an optional Decimal: None and 0 are falsy
Truthy(o) == ~IsNone(o) /\ Val(o) # 0

\* float(x or 0)
FloatOrZero(o) == IF Truthy(o) THEN Float(Val(o)) ELSE Float(0)

\* lines 49-51
AbsReturn(current_val, total_cost) ==
    IF FGt(total_cost, Zero)
        THEN FMul(FDiv(FSub(current_val, total_cost), total_cost), Hundred)
        ELSE Zero

\* line 63: sum([float(t.amount) for t in transactions if t.amount]), the terms
\* added from the left, starting from 0
RECURSIVE InvestedSumFrom(_, _)
InvestedSumFrom(acc, transactions) ==
    IF transactions = <<>> THEN acc
    ELSE LET t == Head(transactions)
         IN  InvestedSumFrom(IF Truthy(t.amount) THEN FAdd(acc, Float(Val(t.amount))) ELSE acc,
                             Tail(transactions))

InvestedSum(transactions) == InvestedSumFrom(Zero, transactions)

\* line 64 with the ratio taken the wrong way round
PartialDataInverted(invested_sum, current_val, total_cost) ==
    /\ FGt(invested_sum, Zero)
    /\ FGt(current_val, Zero)
    /\ FGt(FDiv(invested_sum, current_val), Five)
    /\ FGt(total_cost, invested_sum)

\* line 64
PartialData(invested_sum, current_val, total_cost) ==
    /\ FGt(invested_sum, Zero)
    /\ FGt(FDiv(current_val, invested_sum), Five)
    /\ FGt(total_cost, invested_sum)

\* lines 75-80 with the inflow keywords tested first
SignedAmountInflowFirst(desc, amt) ==
    IF ContainsAny(desc, <<kwREDEMPTION, kwSWITCH_OUT, kwSTP_OUT, kwSWP>>)
        THEN FMul(amt, One)
    ELSE FMul(amt, MinusOne)

\* lines 75-80: money out (-), money in (+)
SignedAmount(desc, amt) ==
    IF ContainsAny(desc, <<kwPURCHASE, kwSIP, kwSWITCH_IN, kwSTP_IN, kwDIVIDEND>>)
        THEN FMul(amt, MinusOne)
    ELSE IF ContainsAny(desc, <<kwREDEMPTION, kwSWITCH_OUT, kwSTP_OUT, kwSWP>>)
        THEN FMul(amt, One)
    ELSE FMul(amt, MinusOne)

\* lines 68-82 with the date appended before the zero-amount test
LoopBodyDateFirst(flows, txn) ==
    LET dt == txn.date
        amt == FloatOrZero(txn.amount)
    IN  IF FEq(amt, Zero) THEN [flows EXCEPT !.dates = Append(@, dt)]
        ELSE [dates |-> Append(flows.dates, dt),
              amounts |-> Append(flows.amounts, SignedAmount(Upper(Str(txn.description)), amt))]

\* lines 68-82: one pass of the loop over transactions
LoopBody(flows, txn) ==
    LET dt == txn.date
        amt == FloatOrZero(txn.amount)
    IN  IF FEq(amt, Zero) THEN flows
        ELSE [dates |-> Append(flows.dates, dt),
              amounts |-> Append(flows.amounts, SignedAmount(Upper(Str(txn.description)), amt))]

\* lines 58-59, 67-82
RECURSIVE CashFlowLoop(_, _)
CashFlowLoop(flows, transactions) ==
    IF transactions = <<>> THEN flows
    ELSE CashFlowLoop(LoopBody(flows, Head(transactions)), Tail(transactions))

\* lines 84-86: the terminal entry
AddCurrentValue(flows, today, current_val) ==
    [dates |-> Append(flows.dates, today), amounts |-> Append(flows.amounts, current_val)]

\* line 96 with the upper bound closed
ImplausibleGe(xirr_val) ==
    FGe(xirr_val, Hundred) \/ FLt(xirr_val, MinusNinety)

\* line 96: the sanity check
Implausible(xirr_val) ==
    FGt(xirr_val, Hundred) \/ FLt(xirr_val, MinusNinety)

\* what calculate_metrics hands back: the tuple of its return statement, with
\* the arguments and the outcome of the xirr() call it made, if any; exc says
\* that an exception left the function instead
Ret(x, a, s, args, r) ==
    [xirr |-> x, abs |-> a, status |-> s, exc |-> FALSE, args |-> args, res |-> r]

\* the xirr() call at line 88 did not happen
NotCalled == [kind |-> "notcalled", rate |-> Zero]

\* the try block without its handler: the exception leaves calculate_metrics
Propagate(abs_return, args, out) ==
    [xirr |-> None, abs |-> abs_return, status |-> "Error", exc |-> TRUE,
     args |-> args, res |-> out]

\* lines 101-102
ExceptHandler(abs_return, args, out) ==
    Ret(None, abs_return, "Error", args, out)

\* lines 88-102: the solver is called with args and does out
CallXirr(abs_return, args, out) ==
    IF out.kind = "raise"
        THEN ExceptHandler(abs_return, args, out)
    ELSE IF out.kind = "none"
        THEN Ret(None, abs_return, "Calc Error", args, out)
    ELSE LET xirr_val == FMul(out.rate, Hundred)
         IN  IF Implausible(xirr_val)
                 THEN Ret(None, abs_return, "Data Mismatch", args, out)
             ELSE Ret(Some(xirr_val), abs_return, "OK", args, out)

\* lines 53-102: what follows the computation of abs_return
AfterAbsReturn(transactions, current_val, total_cost, abs_return, today, out) ==
    IF transactions = <<>>
        THEN Ret(None, abs_return, "No History", None, NotCalled)
    ELSE IF PartialData(InvestedSum(transactions), current_val, total_cost)
        THEN Ret(None, abs_return, "Partial Data", None, NotCalled)
    ELSE CallXirr(abs_return,
                  Some(AddCurrentValue(CashFlowLoop([dates |-> <<>>, amounts |-> <<>>],
                                                    transactions),
                                       today, current_val)),
                  out)

\* lines 39-102; out is what the external solver does when called
calculate_metrics(sch, today, out) ==
    AfterAbsReturn(sch.transactions,
                   FloatOrZero(sch.valuation.value),
                   FloatOrZero(sch.valuation.cost),
                   AbsReturn(FloatOrZero(sch.valuation.value),
                             FloatOrZero(sch.valuation.cost)),
                   today, out)

\* ------------------------------------------------------- get_fund_rating
\* line 106 written with truthiness: `xirr_val if xirr_val else abs_val`
SelectTruthy(xirr_val, abs_val) ==
    IF ~IsNone(xirr_val) /\ ~FEq(Val(xirr_val), Zero) THEN Val(xirr_val) ELSE abs_val

\* line 106
Select(xirr_val, abs_val) ==
    IF ~IsNone(xirr_val) THEN Val(xirr_val) ELSE abs_val

\* lines 104-115
get_fund_rating(xirr_val, abs_val) ==
    LET val == Select(xirr_val, abs_val)
    IN  IF FGe(val, Twenty) THEN rtInForm
        ELSE IF FLe(Twelve, val) /\ FLt(val, Twenty) THEN rtOnTrack
        ELSE IF FLt(Zero, val) /\ FLt(val, Twelve) THEN rtOffTrack
        ELSE rtOutOfForm

\* -------------------------------------------------------------- main loop
\* line 147 with a holding of exactly 100 skipped as well
NegligibleLe(valuation) == FLe(valuation, Hundred)

\* line 147: `if valuation < 100: continue`
Negligible(valuation) == FLt(valuation, Hundred)

\* line 152 without the upper()
IsRegularCaseSensitive(name) == ~Contains(name, kwDIRECT)

\* line 152
IsRegular(name) == ~Contains(Upper(name), kwDIRECT)

\* line 159
CommissionLoss(valuation, is_regular) ==
    IF is_regular THEN FMul(valuation, OnePercent) ELSE Zero

\* lines 162-173
Row(name, asset_class, detailed_cat, valuation, cost, is_regular, x, a, rating, st) ==
    [Fund_Name |-> name,
     Category |-> asset_class,
     Sub_Category |-> detailed_cat,
     Value |-> valuation,
     Invested |-> cost,
     Type |-> IF is_regular THEN tyRegular ELSE tyDirect,
     XIRR |-> IF ~IsNone(x) THEN Fmt2(Val(x)) ELSE strNA,
     Abs_Return |-> Fmt2(a),
     Rating |-> rating,
     Status |-> st]

\* ------------------------------------------- what the parser and solver deliver
\* "Large & Mid Cap"
nmLargeAndMidCap == <<76, 97, 114, 103, 101, 32, 38, 32, 77, 105, 100, 32, 67, 97, 112>>
\* "Large Midcap Direct"
nmLargeMidcapDirect ==
    <<76, 97, 114, 103, 101, 32, 77, 105, 100, 99, 97, 112, 32, 68, 105, 114, 101, 99,
      116>>
\* "large cap d\u0131rect"
nmLargeCapDotless ==
    <<108, 97, 114, 103, 101, 32, 99, 97, 112, 32, 100, 305, 114, 101, 99, 116>>
\* "SMALL CAP DIRECT"
nmSmallCapUpper == <<83, 77, 65, 76, 76, 32, 67, 65, 80, 32, 68, 73, 82, 69, 67, 84>>
\* "XYZ Bond"
nmBond == <<88, 89, 90, 32, 66, 111, 110, 100>>
\* "Flexi Direct"
nmFlexiDirect == <<70, 108, 101, 120, 105, 32, 68, 105, 114, 101, 99, 116>>

Names == {nmLargeAndMidCap, nmLargeMidcapDirect, nmLargeCapDotless, nmSmallCapUpper, nmBond}

\* "Purchase"
dsPurchase == <<80, 117, 114, 99, 104, 97, 115, 101>>
\* "\ufb01nal sw\u0131tch out"
dsSwitchOutLigature ==
    <<64257, 110, 97, 108, 32, 115, 119, 305, 116, 99, 104, 32, 111, 117, 116>>
\* "Sip to SWP"
dsSipSwp == <<83, 105, 112, 32, 116, 111, 32, 83, 87, 80>>
\* "Switch Out"
dsSwitchOut == <<83, 119, 105, 116, 99, 104, 32, 79, 117, 116>>
\* "Stamp Duty"
dsStampDuty == <<83, 116, 97, 109, 112, 32, 68, 117, 116, 121>>

Txn(dt, amount, description) == [date |-> dt, amount |-> amount, description |-> description]

Txns ==
    { Txn(2, Some(30), Some(dsPurchase)),
      Txn(1, Some(40), Some(dsSwitchOutLigature)),
      Txn(1, Some(50), Some(dsSipSwp)),
      Txn(2, Some(0), Some(dsPurchase)),
      Txn(1, None, Some(dsSwitchOut)),
      Txn(2, Some(60), Some(dsStampDuty)),
      Txn(1, Some(70), None) }

RECURSIVE SeqsOfLen(_, _)
SeqsOfLen(S, k) ==
    IF k = 0 THEN {<<>>} ELSE {Append(s, x) : s \in SeqsOfLen(S, k - 1), x \in S}

SeqsUpTo(S, k) == UNION {SeqsOfLen(S, m) : m \in 0..k}

Holding(name, value, cost, transactions) ==
    [scheme |-> name, valuation |-> [value |-> value, cost |-> cost],
     transactions |-> transactions]

SchemesNames ==
    { Holding(nm, v, c, <<>>) :
        nm \in Names, v \in {None, Some(99), Some(100), Some(20203)},
        c \in {None, Some(20000)} }

SchemesFlows ==
    { Holding(nmFlexiDirect, Some(100), Some(80), ts) : ts \in SeqsUpTo(Txns, MaxTxns) }

SchemesRates ==
    { Holding(nmBond, vc[1], vc[2], <<Txn(1, Some(100), Some(dsPurchase))>>) :
        vc \in { <<Some(120), None>>, <<Some(112), Some(100)>> } }

SchemesValuations ==
    { Holding(nmFlexiDirect, v, c, ts) :
        v \in {Some(100), Some(107)}, c \in {None, Some(20), Some(100)},
        ts \in { <<>>,
                 <<Txn(1, Some(20), Some(dsPurchase))>>,
                 <<Txn(1, Some(10), Some(dsPurchase)), Txn(2, Some(10), Some(dsPurchase))>>,
                 <<Txn(1, None, Some(dsPurchase)), Txn(2, Some(0), Some(dsSwitchOut))>> } }

Schemes(w) ==
    CASE w = "names" -> SchemesNames
      [] w = "flows" -> SchemesFlows
      [] w = "rates" -> SchemesRates
      [] w = "valuations" -> SchemesValuations

\* the solver converged to the double nearest to num/den
Converged(num, den) == [kind |-> "rate", rate |-> FDiv(Float(num), Float(den))]
NoResult == [kind |-> "none", rate |-> Zero]
Raises == [kind |-> "raise", rate |-> Zero]

ResultsFlows == {Converged(12, 100), NoResult}
ResultsRates ==
    {NoResult, Raises} \cup {Converged(k, 100) : k \in {-91, -90, 0, 7, 12, 20, 100, 101}}

Results(w) ==
    CASE w = "names" -> {NoResult}
      [] w = "flows" -> ResultsFlows
      [] w = "rates" -> ResultsRates
      [] w = "valuations" -> {Converged(12, 100)}

\* the statements of the "flows" workload hold one scheme: what it checks is the
\* cash-flow series of each scheme on its own
SchemesPerRun(w) == IF w = "flows" THEN 1 ELSE MaxSchemes

\* ---------------------------------------------------------------- the script
InitWith(w) ==
    /\ workload = w
    /\ pc = "idle"
    /\ clock = FirstDay
    /\ visited = 0
    /\ scheme = None
    /\ my_xirr = None
    /\ my_abs = Zero
    /\ status = ""
    /\ res = NotCalled
    /\ xirr_args = None
    /\ todays = {}
    /\ portfolio_data = <<>>
    /\ total_curr = Zero
    /\ total_invested = Zero
    /\ total_commission_loss = Zero
    /\ report = None

Init == \E w \in {"names", "flows", "rates", "valuations"} : InitWith(w)

\* the calendar day changes while the script is running or idle
Tick ==
    /\ clock < FirstDay + MaxTicks
    /\ clock' = clock + 1
    /\ UNCHANGED <<workload, pc, visited, scheme, my_xirr, my_abs, status, res, xirr_args,
                   todays, portfolio_data, total_curr, total_invested,
                   total_commission_loss, report>>

\* lines 127-139: the button is pressed, the script starts again from its first
\* line, with nothing of the run before kept or shown, and the statement parses
Run ==
    /\ pc \in {"idle", "done", "error"}
    /\ pc' = "loop"
    /\ visited' = 0
    /\ scheme' = None
    /\ my_xirr' = None
    /\ my_abs' = Zero
    /\ status' = ""
    /\ res' = NotCalled
    /\ xirr_args' = None
    /\ todays' = {}
    /\ portfolio_data' = <<>>
    /\ total_curr' = Zero
    /\ total_invested' = Zero
    /\ total_commission_loss' = Zero
    /\ report' = None
    /\ UNCHANGED <<workload, clock>>

\* lines 127-134, 250-251: the button is pressed, the parser rejects the input and
\* the run ends in the handler, with no row, no total and no dashboard
ParseError ==
    /\ pc \in {"idle", "done", "error"}
    /\ pc' = "error"
    /\ visited' = 0
    /\ scheme' = None
    /\ my_xirr' = None
    /\ my_abs' = Zero
    /\ status' = ""
    /\ res' = NotCalled
    /\ xirr_args' = None
    /\ todays' = {}
    /\ portfolio_data' = <<>>
    /\ total_curr' = Zero
    /\ total_invested' = Zero
    /\ total_commission_loss' = Zero
    /\ report' = None
    /\ UNCHANGED <<workload, clock>>

\* lines 142-176: one pass of the loop, for the next scheme of the statement.
\* The loop locals are bound once each (a value of a one-element set).
ProcessScheme ==
    /\ pc = "loop"
    /\ visited < SchemesPerRun(workload)
    /\ \E sch \in Schemes(workload), out \in Results(workload) :
       \E valuation \in {FloatOrZero(sch.valuation.value)},
          cost \in {FloatOrZero(sch.valuation.cost)} :
          /\ scheme' = Some(sch)
          /\ IF Negligible(valuation)
                THEN /\ visited' = visited + 1
                     /\ res' = NotCalled
                     /\ xirr_args' = None
                     /\ UNCHANGED <<pc, my_xirr, my_abs, status, todays, portfolio_data,
                                    total_curr, total_invested, total_commission_loss>>
                ELSE \E is_regular \in {IsRegular(sch.scheme)},
                        m \in {calculate_metrics(sch, clock, out)} :
                        /\ res' = m.res
                        /\ xirr_args' = m.args
                        /\ todays' = IF IsNone(m.args) THEN todays
                                      ELSE todays \cup {Val(m.args).dates[Len(Val(m.args).dates)]}
                        /\ IF m.exc
                              THEN \* lines 250-251: the run ends in the handler
                                   /\ pc' = "error"
                                   /\ UNCHANGED <<visited, my_xirr, my_abs, status,
                                                  portfolio_data, total_curr,
                                                  total_invested, total_commission_loss>>
                              ELSE /\ pc' = pc
                                   /\ visited' = visited + 1
                                   /\ my_xirr' = m.xirr
                                   /\ my_abs' = m.abs
                                   /\ status' = m.status
                                   /\ total_commission_loss' =
                                          FAdd(total_commission_loss,
                                               CommissionLoss(valuation, is_regular))
                                   /\ portfolio_data' =
                                          Append(portfolio_data,
                                                 Row(sch.scheme,
                                                     get_asset_class(sch.scheme),
                                                     get_detailed_category(sch.scheme),
                                                     valuation, cost, is_regular,
                                                     m.xirr, m.abs,
                                                     get_fund_rating(m.xirr, m.abs),
                                                     m.status))
                                   /\ total_curr' = FAdd(total_curr, valuation)
                                   /\ total_invested' = FAdd(total_invested, cost)
    /\ UNCHANGED <<workload, clock, report>>

\* line 241-242: value_counts() of the sub-categories, those counted more than twice
RiskyCats(rows) ==
    LET count(cat) == Cardinality({i \in 1..Len(rows) : rows[i].Sub_Category = cat})
    IN  { [cat |-> rows[i].Sub_Category, count |-> count(rows[i].Sub_Category)] :
            i \in {j \in 1..Len(rows) : count(rows[j].Sub_Category) > 2} }

\* line 234: len(df[df['Type'].str.contains("Regular")])
RegularCount(rows) ==
    Cardinality({i \in 1..Len(rows) : Contains(rows[i].Type, kwRegular)})

\* lines 179-248: the loop is over and the dashboard is drawn. With no row the
\* frame has no column and line 241 raises KeyError, after the summary was shown.
Dashboard ==
    /\ pc = "loop"
    /\ \E total_gain \in {FSub(total_curr, total_invested)} :
          report' = Some([total_gain |-> total_gain,
                          total_gain_pct |->
                              IF FGt(total_invested, Zero)
                                  THEN FMul(FDiv(total_gain, total_invested), Hundred)
                                  ELSE Zero,
                          delta |-> IF FEq(total_commission_loss, Zero)
                                        THEN "Perfect" ELSE "Switch & Save",
                          switch |-> IF FGt(total_commission_loss, Zero)
                                        THEN Some(RegularCount(portfolio_data)) ELSE None,
                          risky_cats |-> RiskyCats(portfolio_data)])
    /\ pc' = IF portfolio_data = <<>> THEN "error" ELSE "done"
    /\ UNCHANGED <<workload, clock, visited, scheme, my_xirr, my_abs, status, res, xirr_args,
                   todays, portfolio_data, total_curr, total_invested,
                   total_commission_loss>>

Next == Tick \/ Run \/ ParseError \/ ProcessScheme \/ Dashboard

Spec == Init /\ [][Next]_vars
SpecNames == InitWith("names") /\ [][Next]_vars
SpecFlows == InitWith("flows") /\ [][Next]_vars
SpecRates == InitWith("rates") /\ [][Next]_vars
SpecValuations == InitWith("valuations") /\ [][Next]_vars

\* ------------------------------------------------------------------ claims
\* what the claims are stated with: the inputs as the parser gave them
Amount(o) == IF IsNone(o) THEN 0 ELSE Val(o)
CurrentValue(sch) == Amount(sch.valuation.value)
TotalCost(sch) == Amount(sch.valuation.cost)
Last(seq) == seq[Len(seq)]

\* the last scheme the loop took was not skipped as negligible
Processed == ~IsNone(scheme) /\ CurrentValue(Val(scheme)) >= 100

\* (value - cost) / cost * 100 in floating point, and 0 when there is no cost
ExpectedAbs(sch) ==
    IF TotalCost(sch) > 0
        THEN FMul(FDiv(FSub(Float(CurrentValue(sch)), Float(TotalCost(sch))),
                       Float(TotalCost(sch))),
                  Float(100))
        ELSE Float(0)

RECURSIVE SumAmounts(_)
SumAmounts(transactions) ==
    IF transactions = <<>> THEN 0
    ELSE Amount(Head(transactions).amount) + SumAmounts(Tail(transactions))

\* the partial-data rule on the parser's numbers
PartialRule(sch) ==
    LET invested_sum == SumAmounts(sch.transactions)
    IN  /\ invested_sum > 0
        /\ CurrentValue(sch) > 5 * invested_sum
        /\ TotalCost(sch) > invested_sum

NonZeroAmount(txn) == Amount(txn.amount) # 0

\* the percentage of a solver rate
Percentage(rate) == FMul(rate, Float(100))

\* the percentage of a solver rate lies in [-90.0, 100.0]
InRange(rate) ==
    FLe(Float(-90), Percentage(rate)) /\ FLe(Percentage(rate), Float(100))

HasDirect(name) == Contains(Upper(name), kwDIRECT)

\* 1% of the value of every row whose name is without DIRECT, summed in the
\* order of the rows
RECURSIVE ExpectedLossFrom(_, _)
ExpectedLossFrom(acc, rows) ==
    IF rows = <<>> THEN acc
    ELSE ExpectedLossFrom(FAdd(acc, IF HasDirect(Head(rows).Fund_Name)
                                        THEN Float(0)
                                        ELSE FMul(Head(rows).Value, OnePercent)),
                          Tail(rows))

\* C1: every reported fund whose name contains both LARGE and MID, in any
\* casing, has the sub-category Large & Mid Cap
C1_LargeAndMidCap ==
    \A i \in 1..Len(portfolio_data) :
        LET name == Upper(portfolio_data[i].Fund_Name)
        IN  Contains(name, kwLARGE) /\ Contains(name, kwMID)
                => portfolio_data[i].Sub_Category = "Large & Mid Cap"

\* C2: within one run every terminal cash-flow entry carries the same date
C2_TodayCapturedOnce == Cardinality(todays) <= 1

\* C3: a pass of the loop over a holding worth less than 100 adds no row and
\* leaves the three totals alone; a pass over a holding worth 100 or more adds
\* one row for it and adds its value, its cost and its commission loss to the totals
C3_NegligibleExcluded ==
    [][visited' = visited + 1 =>
        LET sch == Val(scheme')
            last == Last(portfolio_data')
        IN  IF CurrentValue(sch) < 100
                THEN /\ portfolio_data' = portfolio_data
                     /\ total_curr' = total_curr
                     /\ total_invested' = total_invested
                     /\ total_commission_loss' = total_commission_loss
                ELSE /\ Len(portfolio_data') = Len(portfolio_data) + 1
                     /\ SubSeq(portfolio_data', 1, Len(portfolio_data)) = portfolio_data
                     /\ last.Fund_Name = sch.scheme
                     /\ last.Value = Float(CurrentValue(sch))
                     /\ last.Invested = Float(TotalCost(sch))
                     /\ total_curr' = FAdd(total_curr, Float(CurrentValue(sch)))
                     /\ total_invested' = FAdd(total_invested, Float(TotalCost(sch)))
                     /\ total_commission_loss' =
                            FAdd(total_commission_loss,
                                 IF last.Type = tyRegular
                                     THEN FMul(Float(CurrentValue(sch)), OnePercent)
                                     ELSE Float(0))
      ]_vars

\* C3 witness: a holding of exactly 100 is reported, the next one, of 99, is not
C3_Witness ==
    /\ visited = 2
    /\ Len(portfolio_data) = 1
    /\ portfolio_data[1].Value = Float(100)
    /\ total_curr = Float(100)
    /\ Val(scheme).valuation.value = Some(99)

\* C4: xirr is set only with status OK; the status is OK exactly when the solver
\* converged to a rate whose percentage lies in [-90.0, 100.0], and xirr is then
\* that percentage; a converged rate outside it gives Data Mismatch and no xirr;
\* absolute_return is (value - cost) / cost * 100, and 0 when the cost is 0
C4_ResultShape ==
    Processed =>
        /\ (~IsNone(my_xirr) => status = "OK")
        /\ (status = "OK" <=> (res.kind = "rate" /\ InRange(res.rate)))
        /\ (status = "OK" => my_xirr = Some(Percentage(res.rate)))
        /\ (res.kind = "rate" /\ ~InRange(res.rate)
                => status = "Data Mismatch" /\ IsNone(my_xirr))
        /\ my_abs = ExpectedAbs(Val(scheme))
        /\ (TotalCost(Val(scheme)) = 0 => my_abs = Float(0))

\* C4 witness: a rate of exactly 100.0 percent is reported with status OK
C4_Witness ==
    /\ Processed
    /\ status = "OK"
    /\ res.rate = Float(1)
    /\ my_xirr = Some(Float(100))

\* C5: no pass of the loop ends the run in the error handler; and a pass whose
\* solver call returns nothing, raises, or converges outside the range adds
\* exactly one row, with status Calc Error, Error or Data Mismatch, no XIRR and
\* the absolute return of the valuation
C5_FailureIsolated ==
    [][/\ (pc = "loop" /\ IsNone(report') => pc' = "loop")
       /\ (pc = "loop" /\ IsNone(report') /\ scheme' # scheme
              => visited' = visited + 1)
       /\ (visited' = visited + 1 /\ res'.kind # "notcalled"
            /\ ~(res'.kind = "rate" /\ InRange(res'.rate))
              => /\ Len(portfolio_data') = Len(portfolio_data) + 1
                 /\ Last(portfolio_data').Fund_Name = Val(scheme').scheme
                 /\ Last(portfolio_data').Status =
                        (CASE res'.kind = "none" -> "Calc Error"
                           [] res'.kind = "raise" -> "Error"
                           [] res'.kind = "rate" -> "Data Mismatch")
                 /\ Last(portfolio_data').XIRR = strNA
                 /\ Last(portfolio_data').Abs_Return = Fmt2(ExpectedAbs(Val(scheme'))))
      ]_vars

\* C5 witness: the solver raised for the first holding and the second is reported
C5_Witness ==
    /\ Len(portfolio_data) = 2
    /\ portfolio_data[1].Status = "Error"
    /\ portfolio_data[1].XIRR = strNA
    /\ portfolio_data[2].Status = "OK"

\* C6: the solver is called only for a holding with a transaction that does not
\* satisfy the partial-data rule; with no transaction the result is
\* (None, absolute_return, No History), with the rule satisfied it is
\* (None, absolute_return, Partial Data), and no solver call was made for either
C6_ChecksBeforeSolver ==
    Processed =>
        LET sch == Val(scheme)
        IN  /\ (~IsNone(xirr_args) \/ res.kind # "notcalled"
                    => Len(sch.transactions) > 0 /\ ~PartialRule(sch))
            /\ (Len(sch.transactions) = 0
                    => /\ IsNone(my_xirr)
                       /\ my_abs = ExpectedAbs(sch)
                       /\ status = "No History")
            /\ (Len(sch.transactions) > 0 /\ PartialRule(sch)
                    => /\ IsNone(my_xirr)
                       /\ my_abs = ExpectedAbs(sch)
                       /\ status = "Partial Data")

\* C6 witness: a holding with transactions satisfies the rule and is reported
\* as Partial Data without a solver call
C6_Witness ==
    /\ Processed
    /\ Len(Val(scheme).transactions) > 0
    /\ PartialRule(Val(scheme))
    /\ status = "Partial Data"
    /\ IsNone(xirr_args)

\* C7: the rating of the last reported holding is the tier of v, where v is the
\* xirr when there is one (0 included) and the absolute return otherwise:
\* v >= 20 IN-FORM, 12 <= v < 20 ON-TRACK, 0 < v < 12 OFF-TRACK, v <= 0 OUT-OF-FORM
C7_RatingTiers ==
    Len(portfolio_data) > 0 =>
        LET v == IF ~IsNone(my_xirr) THEN Val(my_xirr) ELSE my_abs
            rating == Last(portfolio_data).Rating
        IN  /\ rating \in {rtInForm, rtOnTrack, rtOffTrack, rtOutOfForm}
            /\ (rating = rtInForm <=> FGe(v, Float(20)))
            /\ (rating = rtOnTrack <=> (FLe(Float(12), v) /\ FLt(v, Float(20))))
            /\ (rating = rtOffTrack <=> (FLt(Float(0), v) /\ FLt(v, Float(12))))
            /\ (rating = rtOutOfForm <=> FLe(v, Float(0)))

\* C7 witness: an xirr of exactly 0 is rated OUT-OF-FORM although the absolute
\* return, 12, is ON-TRACK
C7_Witness ==
    /\ Len(portfolio_data) > 0
    /\ my_xirr = Some(Float(0))
    /\ my_abs = Float(12)
    /\ Last(portfolio_data).Rating = rtOutOfForm

\* C8: the series passed to the solver has one entry per transaction with a
\* non-zero amount, in transaction order, with that transaction's date and the
\* magnitude of its amount, none for a zero or absent amount, and last one
\* terminal entry dated today with the amount +current_value
C8_CashFlowSeries ==
    [][visited' = visited + 1 /\ ~IsNone(xirr_args') =>
        LET sch == Val(scheme')
            flows == Val(xirr_args')
            nz == SelectSeq(sch.transactions, NonZeroAmount)
        IN  /\ Len(flows.dates) = Len(nz) + 1
            /\ Len(flows.amounts) = Len(nz) + 1
            /\ \A i \in 1..Len(nz) :
                  /\ flows.dates[i] = nz[i].date
                  /\ flows.amounts[i] \in {Float(Amount(nz[i].amount)),
                                           Float(-Amount(nz[i].amount))}
            /\ Last(flows.dates) = clock
            /\ Last(flows.amounts) = Float(CurrentValue(sch))
      ]_vars

\* C8 witness: two transactions, one of them without an amount, give a series of
\* the other one and the terminal entry
C8_Witness ==
    /\ ~IsNone(xirr_args)
    /\ Len(Val(scheme).transactions) = 2
    /\ IsNone(Val(scheme).transactions[1].amount)
    /\ Val(xirr_args).dates = <<2, clock>>
    /\ Val(xirr_args).amounts = <<Float(-60), Float(100)>>

\* C9: the total commission loss is the sum over the reported holdings of 1% of
\* the value for a name without DIRECT in any casing and of 0 for a name with it
C9_CommissionLoss == total_commission_loss = ExpectedLossFrom(Float(0), portfolio_data)

\* C9 witness: a holding whose name has DIRECT only after upper-casing and a
\* holding without it are reported, and the total is 1% of the second one's value
C9_Witness ==
    /\ Len(portfolio_data) = 2
    /\ portfolio_data[1].Fund_Name = nmLargeCapDotless
    /\ portfolio_data[2].Fund_Name = nmBond
    /\ portfolio_data[2].Value = Float(20203)
    /\ total_commission_loss = FMul(Float(20203), OnePercent)

\* C10: the entry of a transaction with a non-zero amount is -amount when the
\* upper-cased description contains an outflow keyword, else +amount when it
\* contains an inflow keyword, else -amount
C10_SignPrecedence ==
    ~IsNone(xirr_args) =>
        LET nz == SelectSeq(Val(scheme).transactions, NonZeroAmount)
            amounts == Val(xirr_args).amounts
        IN  /\ Len(amounts) = Len(nz) + 1
            /\ \A i \in 1..Len(nz) :
                  LET desc == Upper(Str(nz[i].description))
                      amount == Amount(nz[i].amount)
                      out == \E k \in {kwPURCHASE, kwSIP, kwSWITCH_IN, kwSTP_IN, kwDIVIDEND} :
                                 Contains(desc, k)
                      in == \E k \in {kwREDEMPTION, kwSWITCH_OUT, kwSTP_OUT, kwSWP} :
                                 Contains(desc, k)
                  IN  amounts[i] = IF out THEN Float(-amount)
                                   ELSE IF in THEN Float(amount)
                                   ELSE Float(-amount)

\* C10 witness: a description with an outflow and an inflow keyword ("Sip to SWP")
\* gives a negative entry, and one with an inflow keyword only a positive one
C10_Witness ==
    /\ ~IsNone(xirr_args)
    /\ Val(scheme).transactions =
           <<Txn(1, Some(50), Some(dsSipSwp)), Txn(1, Some(40), Some(dsSwitchOutLigature))>>
    /\ Val(xirr_args).amounts = <<Float(-50), Float(40), Float(100)>>

====
